---- MODULE Spec2Model ----
(***************************************************************************)
(* Model of the ld.so.cache codec of chainguard-dev/ldso-cache:            *)
(* LoadCacheFile (decode), LDSOCacheFile.Write (encode) and                *)
(* extractShlibName, at the level of the bytes of the file.                *)
(*                                                                         *)
(* uint32 values are kept as two 16-bit limbs [hi, lo] so that the         *)
(* wrap-around of the unsigned subtraction and values above 2^31 (the      *)
(* extension magic) are represented exactly; uint64 values are two uint32. *)
(***************************************************************************)
EXTENDS Integers, Sequences, FiniteSets, TLC

VARIABLES cf, disk, pc, corrupted, wres, lres, strtable, startIdx, nres

vars == <<cf, disk, pc, corrupted, wres, lres, strtable, startIdx, nres>>

(***************************************************************************)
(* Bounds of the explored inputs.                                          *)
(***************************************************************************)
MaxEntries == 2
MaxExts == 2
MaxAlloc == 40
MaxTable == 4

(***************************************************************************)
(* Fixed-width integers and their little-endian encoding.                  *)
(***************************************************************************)
Limb == 256 * 256

U32(n) == [hi |-> n \div Limb, lo |-> n % Limb]

IsSmall(u) == u.hi < 32768

ToInt(u) == u.hi * Limb + u.lo

Add32(a, b) ==
  LET l == a.lo + b.lo
      h == a.hi + b.hi + (l \div Limb)
  IN  [hi |-> h % Limb, lo |-> l % Limb]

Sub32(a, b) ==
  LET l == a.lo - b.lo
      borrow == IF l < 0 THEN 1 ELSE 0
      h == a.hi - b.hi - borrow
  IN  [hi |-> (h + Limb) % Limb, lo |-> (l + Limb) % Limb]

U64(h, l) == [hi |-> U32(h), lo |-> U32(l)]

Min(a, b) == IF a < b THEN a ELSE b

Zeros(n) == [k \in 1..n |-> 0]

PutU16(x) == <<x % 256, x \div 256>>

PutU32(u) == PutU16(u.lo) \o PutU16(u.hi)

PutU64(w) == PutU32(w.lo) \o PutU32(w.hi)

\* b is a byte sequence, off a 0-based offset into it
GetU32(b, off) ==
  [lo |-> b[off + 1] + 256 * b[off + 2], hi |-> b[off + 3] + 256 * b[off + 4]]

GetU64(b, off) == [lo |-> GetU32(b, off), hi |-> GetU32(b, off + 4)]

(***************************************************************************)
(* Program constants.                                                      *)
(***************************************************************************)
\* "glibc-ld.so.cache"
ldsoMagic ==
  <<103, 108, 105, 98, 99, 45, 108, 100, 46, 115, 111, 46, 99, 97, 99, 104, 101>>

\* "1.1"
ldsoVersion == <<49, 46, 49>>

\* 0xEAA42174
ldsoExtensionMagic == [hi |-> 60068, lo |-> 8564]

\* binary.Size / unsafe.Sizeof of the three fixed records
HeaderSize == 48
EntrySize == 24
ExtHeaderSize == 8
SectionHeaderSize == 16

(***************************************************************************)
(* Record layouts (encoding/binary, little endian, fields in order).       *)
(***************************************************************************)
EncodeHeader(h) ==
  h.Magic \o h.Version \o PutU32(h.NumLibs) \o PutU32(h.StrTableSize)
    \o <<h.Flags>> \o h.Unused0 \o PutU32(h.ExtOffset)
    \o PutU32(h.Unused1[1]) \o PutU32(h.Unused1[2]) \o PutU32(h.Unused1[3])

DecodeHeader(b) ==
  [Magic |-> SubSeq(b, 1, 17), Version |-> SubSeq(b, 18, 20),
   NumLibs |-> GetU32(b, 20), StrTableSize |-> GetU32(b, 24),
   Flags |-> b[29], Unused0 |-> SubSeq(b, 30, 32),
   ExtOffset |-> GetU32(b, 32),
   Unused1 |-> <<GetU32(b, 36), GetU32(b, 40), GetU32(b, 44)>>]

EncodeRawEntry(e) ==
  PutU32(e.Flags) \o PutU32(e.Key) \o PutU32(e.Value)
    \o PutU32(e.OSVersion_Needed) \o PutU64(e.HWCap_Needed)

DecodeRawEntry(b) ==
  [Flags |-> GetU32(b, 0), Key |-> GetU32(b, 4), Value |-> GetU32(b, 8),
   OSVersion_Needed |-> GetU32(b, 12), HWCap_Needed |-> GetU64(b, 16)]

EncodeExtHeader(e) == PutU32(e.Magic) \o PutU32(e.Count)

DecodeExtHeader(b) == [Magic |-> GetU32(b, 0), Count |-> GetU32(b, 4)]

EncodeSectionHeader(s) ==
  PutU32(s.Tag) \o PutU32(s.Flags) \o PutU32(s.Offset) \o PutU32(s.Size)

DecodeSectionHeader(b) ==
  [Tag |-> GetU32(b, 0), Flags |-> GetU32(b, 4),
   Offset |-> GetU32(b, 8), Size |-> GetU32(b, 12)]

RECURSIVE Flatten(_)
Flatten(ss) == IF ss = <<>> THEN <<>> ELSE Head(ss) \o Flatten(Tail(ss))

(***************************************************************************)
(* The reader over the file's bytes: s the bytes, i the 0-based position.  *)
(***************************************************************************)
\* binary.Read of an n-byte record: io.ReadFull, a short read is an error
binaryRead(s, i, n) ==
  IF Len(s) - i < n
  THEN [err |-> TRUE, data |-> <<>>, pos |-> i]
  ELSE [err |-> FALSE, data |-> SubSeq(s, i + 1, i + n), pos |-> i + n]

\* bytes.Reader.Read into a zeroed buffer of n bytes: io.EOF only when no
\* byte is left; otherwise it copies what there is and reports no error
readerRead(s, i, n) ==
  IF i >= Len(s)
  THEN [err |-> TRUE, data |-> Zeros(n), pos |-> i]
  ELSE LET k == Min(n, Len(s) - i)
       IN  [err |-> FALSE, data |-> SubSeq(s, i + 1, i + k) \o Zeros(n - k),
            pos |-> i + k]

\* (pos & -16) + 8 on a non-negative int64
AlignedPos(pos) == (pos - (pos % 16)) + 8

(***************************************************************************)
(* extractShlibName: strtable[startIdx:] panics when startIdx exceeds the  *)
(* length of the table (startIdx equal to the length is an empty slice).   *)
(***************************************************************************)
RECURSIVE IndexByte(_, _, _)
\* 0-based index of the first c in b at or after 0-based k, or -1
IndexByte(b, c, k) ==
  IF k >= Len(b) THEN -1
  ELSE IF b[k + 1] = c THEN k
  ELSE IndexByte(b, c, k + 1)

\* variant: the terminator is kept in the name
extractShlibNameKeepNul(tbl, idx) ==
  IF ~IsSmall(idx) \/ ToInt(idx) > Len(tbl)
  THEN [panic |-> TRUE, name |-> <<>>]
  ELSE LET subset == SubSeq(tbl, ToInt(idx) + 1, Len(tbl))
           terminatorPos == IndexByte(subset, 0, 0)
       IN  IF terminatorPos = -1
           THEN [panic |-> FALSE, name |-> subset]
           ELSE [panic |-> FALSE, name |-> SubSeq(subset, 1, terminatorPos + 1)]

extractShlibName(tbl, idx) ==
  IF ~IsSmall(idx) \/ ToInt(idx) > Len(tbl)
  THEN [panic |-> TRUE, name |-> <<>>]
  ELSE LET subset == SubSeq(tbl, ToInt(idx) + 1, Len(tbl))
           terminatorPos == IndexByte(subset, 0, 0)
       IN  IF terminatorPos = -1
           THEN [panic |-> FALSE, name |-> subset]
           ELSE [panic |-> FALSE, name |-> SubSeq(subset, 1, terminatorPos)]

(***************************************************************************)
(* LoadCacheFile.                                                          *)
(***************************************************************************)
NoFile == [Header |-> <<>>, Entries |-> <<>>, Extensions |-> <<>>]

Outcome(st, f) == [status |-> st, file |-> f]

RECURSIVE readRawLibsLenient(_, _, _, _)
\* variant: a record that cannot be read in full ends the loop without error
readRawLibsLenient(s, i, numLibs, acc) ==
  IF U32(Len(acc)) = numLibs
  THEN [err |-> FALSE, rawlibs |-> acc, pos |-> i]
  ELSE LET rd == binaryRead(s, i, EntrySize)
       IN  IF rd.err
           THEN [err |-> FALSE, rawlibs |-> acc, pos |-> i]
           ELSE readRawLibsLenient(s, rd.pos, numLibs,
                                   Append(acc, DecodeRawEntry(rd.data)))

RECURSIVE readRawLibs(_, _, _, _)
\* the loop "for i < header.NumLibs": every record is read in full or the
\* load fails
readRawLibs(s, i, numLibs, acc) ==
  IF U32(Len(acc)) = numLibs
  THEN [err |-> FALSE, rawlibs |-> acc, pos |-> i]
  ELSE LET rd == binaryRead(s, i, EntrySize)
       IN  IF rd.err
           THEN [err |-> TRUE, rawlibs |-> acc, pos |-> i]
           ELSE readRawLibs(s, rd.pos, numLibs,
                            Append(acc, DecodeRawEntry(rd.data)))

\* the loop that builds the cache index from the raw records
buildEntries(rawlibs, tbl, pos) ==
  LET nm(k) == extractShlibName(tbl, Sub32(rawlibs[k].Value, U32(pos)))
  IN  IF \E k \in 1..Len(rawlibs) : nm(k).panic
      THEN [panic |-> TRUE, entries |-> <<>>]
      ELSE [panic |-> FALSE,
            entries |-> [k \in 1..Len(rawlibs) |->
                           [Flags |-> rawlibs[k].Flags,
                            Name |-> nm(k).name,
                            OSVersion_Needed |-> rawlibs[k].OSVersion_Needed,
                            HWCap_Needed |-> rawlibs[k].HWCap_Needed]]]

\* header, entry table, string table and names; pos is the reader's
\* position after the string table
LoadCore(bindata) ==
  LET hd == binaryRead(bindata, 0, HeaderSize)
  IN
  IF hd.err THEN [status |-> "err", file |-> NoFile, pos |-> 0]
  ELSE
  LET header == DecodeHeader(hd.data)
      rl == readRawLibs(bindata, hd.pos, header.NumLibs, <<>>)
  IN
  IF rl.err THEN [status |-> "err", file |-> NoFile, pos |-> 0]
  ELSE IF ~IsSmall(header.StrTableSize) \/ ToInt(header.StrTableSize) > MaxAlloc
  THEN [status |-> "toobig", file |-> NoFile, pos |-> 0]
  ELSE
  LET st == readerRead(bindata, rl.pos, ToInt(header.StrTableSize))
  IN
  IF st.err THEN [status |-> "err", file |-> NoFile, pos |-> 0]
  ELSE
  LET be == buildEntries(rl.rawlibs, st.data, rl.pos)
  IN
  IF be.panic THEN [status |-> "panic", file |-> NoFile, pos |-> 0]
  ELSE [status |-> "ok",
        file |-> [Header |-> header, Entries |-> be.entries,
                  Extensions |-> <<>>],
        pos |-> st.pos]

RECURSIVE readSectionHeaders(_, _, _, _)
readSectionHeaders(s, i, count, acc) ==
  IF U32(Len(acc)) = count
  THEN [err |-> FALSE, headers |-> acc]
  ELSE LET rd == binaryRead(s, i, SectionHeaderSize)
       IN  IF rd.err
           THEN [err |-> TRUE, headers |-> acc]
           ELSE readSectionHeaders(s, rd.pos, count,
                                   Append(acc, DecodeSectionHeader(rd.data)))

\* Seek to the section's offset and Read its Size bytes
readSection(s, h) ==
  IF ~IsSmall(h.Offset)
  THEN [err |-> TRUE, data |-> <<>>, pos |-> 0]
  ELSE readerRead(s, ToInt(h.Offset), ToInt(h.Size))

\* variant: the magic is not compared
extensionsPresentAnyMagic(eh) == ~eh.err

\* the sub-header was read and carries the extension magic
extensionsPresent(eh) ==
  /\ ~eh.err
  /\ DecodeExtHeader(eh.data).Magic = ldsoExtensionMagic

\* the extension area, read after the core tables: every failure returns
\* the file decoded so far and no error
LoadExtensions(file, bindata, pos) ==
  LET eh == binaryRead(bindata, AlignedPos(pos), ExtHeaderSize)
  IN
  IF ~extensionsPresent(eh) THEN Outcome("ok", file)
  ELSE
  LET extHeader == DecodeExtHeader(eh.data)
  IN
  LET sh == readSectionHeaders(bindata, eh.pos, extHeader.Count, <<>>)
  IN
  IF sh.err THEN Outcome("ok", file)
  ELSE
  LET n == Len(sh.headers)
      big(k) == ~IsSmall(sh.headers[k].Size)
                  \/ ToInt(sh.headers[k].Size) > MaxAlloc
      rd(k) == readSection(bindata, sh.headers[k])
      \* the first section whose Seek/Read fails, n + 1 if none does
      failAt == IF \E k \in 1..n : ~big(k) /\ rd(k).err
                THEN CHOOSE k \in 1..n :
                       /\ ~big(k) /\ rd(k).err
                       /\ \A j \in 1..(k - 1) : big(j) \/ ~rd(j).err
                ELSE n + 1
  IN
  IF \E k \in 1..n : k <= failAt /\ big(k) THEN Outcome("toobig", NoFile)
  ELSE IF failAt <= n THEN Outcome("ok", file)
  ELSE Outcome("ok",
               [file EXCEPT !.Extensions =
                  [k \in 1..n |-> [Header |-> sh.headers[k],
                                   Data |-> rd(k).data]]])

LoadCacheFile(bindata) ==
  LET core == LoadCore(bindata)
  IN  IF core.status # "ok"
      THEN Outcome(core.status, core.file)
      ELSE LoadExtensions(core.file, bindata, core.pos)

(***************************************************************************)
(* path/filepath.Dir on a Unix build (separator '/', no volume names).     *)
(***************************************************************************)
Slash == 47
Dot == 46

RECURSIVE LastSlash(_, _)
\* 1-based position of the last separator among the first k bytes, 0 if none
LastSlash(path, k) ==
  IF k = 0 THEN 0
  ELSE IF path[k] = Slash THEN k
  ELSE LastSlash(path, k - 1)

RECURSIVE SplitPath(_, _, _)
\* the separator-delimited elements of path, empty elements included
SplitPath(path, cur, acc) ==
  IF path = <<>> THEN Append(acc, cur)
  ELSE IF Head(path) = Slash THEN SplitPath(Tail(path), <<>>, Append(acc, cur))
  ELSE SplitPath(Tail(path), Append(cur, Head(path)), acc)

RECURSIVE CleanElems(_, _, _)
\* drops empty and "." elements; ".." removes the element before it, is
\* dropped at the root, and is kept at the start of a relative path
CleanElems(elems, rooted, out) ==
  IF elems = <<>> THEN out
  ELSE LET e == Head(elems)
           rest == Tail(elems)
       IN  IF e = <<>> \/ e = <<Dot>> THEN CleanElems(rest, rooted, out)
           ELSE IF e = <<Dot, Dot>>
           THEN IF out # <<>> /\ out[Len(out)] # <<Dot, Dot>>
                THEN CleanElems(rest, rooted, SubSeq(out, 1, Len(out) - 1))
                ELSE IF rooted THEN CleanElems(rest, rooted, out)
                ELSE CleanElems(rest, rooted, Append(out, e))
           ELSE CleanElems(rest, rooted, Append(out, e))

RECURSIVE JoinPath(_)
JoinPath(elems) ==
  IF elems = <<>> THEN <<>>
  ELSE IF Len(elems) = 1 THEN Head(elems)
  ELSE Head(elems) \o <<Slash>> \o JoinPath(Tail(elems))

Clean(path) ==
  IF path = <<>> THEN <<Dot>>
  ELSE LET rooted == path[1] = Slash
           out == JoinPath(CleanElems(SplitPath(path, <<>>, <<>>), rooted, <<>>))
       IN  IF rooted THEN <<Slash>> \o out
           ELSE IF out = <<>> THEN <<Dot>>
           ELSE out

\* everything up to and including the last separator, cleaned
Dir(path) == Clean(SubSeq(path, 1, LastSlash(path, Len(path))))

(***************************************************************************)
(* LDSOCacheFile.Write.                                                    *)
(***************************************************************************)
RECURSIVE buildStringTable(_, _, _, _)
\* the loop over cf.Entries: raw records and string table grow together
buildStringTable(libs, fileEntryTableSize, lrcEntries, stringTable) ==
  IF libs = <<>>
  THEN [lrcEntries |-> lrcEntries, stringTable |-> stringTable]
  ELSE LET lib == Head(libs)
           cursor == Add32(U32(fileEntryTableSize), U32(Len(stringTable)))
           lrcEntry == [Flags |-> lib.Flags,
                        Key |-> Add32(cursor, U32(Len(Dir(lib.Name)))),
                        Value |-> cursor,
                        OSVersion_Needed |-> lib.OSVersion_Needed,
                        HWCap_Needed |-> lib.HWCap_Needed]
       IN  buildStringTable(Tail(libs), fileEntryTableSize,
                            Append(lrcEntries, lrcEntry),
                            stringTable \o lib.Name \o <<0>>)

\* make([]byte, n) panics for a negative n
padBytes(n) == IF n < 0 THEN [panic |-> TRUE, pad |-> <<>>]
               ELSE [panic |-> FALSE, pad |-> Zeros(n)]

\* the extension area: sub-header, every section header as the model holds
\* it, then every payload
writeExtensions(exts) ==
  IF Len(exts) > 0
  THEN EncodeExtHeader([Magic |-> ldsoExtensionMagic, Count |-> U32(Len(exts))])
         \o Flatten([k \in 1..Len(exts) |-> EncodeSectionHeader(exts[k].Header)])
         \o Flatten([k \in 1..Len(exts) |-> exts[k].Data])
  ELSE <<>>

Write(file) ==
  LET fileEntryTableSize == HeaderSize + Len(file.Entries) * EntrySize
      st == buildStringTable(file.Entries, fileEntryTableSize, <<>>, <<>>)
      buf == EncodeHeader(file.Header)
               \o Flatten([k \in 1..Len(st.lrcEntries) |->
                             EncodeRawEntry(st.lrcEntries[k])])
               \o st.stringTable
      pos == Len(buf)
      alignedPos == AlignedPos(pos)
      pd == padBytes(alignedPos - pos)
  IN  IF pd.panic
      THEN [status |-> "panic", bytes |-> <<>>]
      ELSE [status |-> "ok",
            bytes |-> buf \o pd.pad \o writeExtensions(file.Extensions)]

(***************************************************************************)
(* The inputs: the models a caller builds and hands to Write, and the      *)
(* files LoadCacheFile is given (files written by Write, cut short at any  *)
(* length, or with one byte cleared).                                      *)
(***************************************************************************)
NameA == <<97>>
NameRootB == <<47, 98>>
NameLibC == <<47, 108, 105, 98, 47, 99, 46, 115, 111>>

EntryPool ==
  { [Flags |-> U32(1), Name |-> NameA,
     OSVersion_Needed |-> U32(0), HWCap_Needed |-> U64(0, 0)],
    [Flags |-> U32(771), Name |-> NameLibC,
     OSVersion_Needed |-> [hi |-> 2, lo |-> 6],
     HWCap_Needed |-> [hi |-> U32(1), lo |-> [hi |-> 32768, lo |-> 5]]],
    [Flags |-> U32(3), Name |-> NameRootB,
     OSVersion_Needed |-> U32(0), HWCap_Needed |-> U64(0, 256)] }

ExtPool ==
  { [Header |-> [Tag |-> U32(0), Flags |-> U32(0),
                 Offset |-> U32(80), Size |-> U32(3)],
     Data |-> <<108, 100, 99>>],
    [Header |-> [Tag |-> U32(1), Flags |-> U32(2),
                 Offset |-> U32(0), Size |-> U32(2)],
     Data |-> <<7, 9>>] }

\* stale string-table sizes a model's header may carry
StrSizes == {0, 16}

TableBytes == {0, 47, 97}

RECURSIVE TableSize(_)
TableSize(libs) ==
  IF libs = <<>> THEN 0 ELSE Len(Head(libs).Name) + 1 + TableSize(Tail(libs))

EmptyHeader ==
  [Magic |-> ldsoMagic, Version |-> ldsoVersion,
   NumLibs |-> U32(0), StrTableSize |-> U32(0),
   Flags |-> 0, Unused0 |-> <<0, 0, 0>>, ExtOffset |-> U32(0),
   Unused1 |-> <<U32(0), U32(0), U32(0)>>]

NoName == [status |-> "none", name |-> <<>>]

Init ==
  /\ cf = [Header |-> EmptyHeader, Entries |-> <<>>, Extensions |-> <<>>]
  /\ disk = <<>>
  /\ pc = "build"
  /\ corrupted = FALSE
  /\ wres = "none"
  /\ lres = Outcome("none", NoFile)
  /\ strtable = <<>>
  /\ startIdx = U32(0)
  /\ nres = NoName

\* the caller appends an entry to the model
AddEntry(e) ==
  /\ pc = "build"
  /\ Len(cf.Entries) < MaxEntries
  /\ cf' = [cf EXCEPT !.Entries = Append(@, e)]
  /\ UNCHANGED <<disk, pc, corrupted, wres, lres, strtable, startIdx, nres>>

\* the caller appends an extension section to the model
AddExtension(x) ==
  /\ pc = "build"
  /\ Len(cf.Extensions) < MaxExts
  /\ cf' = [cf EXCEPT !.Extensions = Append(@, x)]
  /\ UNCHANGED <<disk, pc, corrupted, wres, lres, strtable, startIdx, nres>>

\* the caller fills in the header's counts
SetHeader(n, size) ==
  /\ pc = "build"
  /\ cf' = [cf EXCEPT !.Header.NumLibs = U32(n),
                      !.Header.StrTableSize = U32(size)]
  /\ pc' = "ready"
  /\ UNCHANGED <<disk, corrupted, wres, lres, strtable, startIdx, nres>>

\* cf.Write(path): the file is created only after the buffer is complete
DoWrite ==
  /\ pc = "ready"
  /\ LET w == Write(cf)
     IN  /\ wres' = w.status
         /\ IF w.status = "ok"
            THEN disk' = w.bytes /\ pc' = "disk"
            ELSE disk' = disk /\ pc' = "crashed"
  /\ UNCHANGED <<cf, corrupted, lres, strtable, startIdx, nres>>

\* the file is cut short
Truncate(n) ==
  /\ pc = "disk"
  /\ ~corrupted
  /\ n < Len(disk)
  /\ disk' = SubSeq(disk, 1, n)
  /\ corrupted' = TRUE
  /\ UNCHANGED <<cf, pc, wres, lres, strtable, startIdx, nres>>

\* one byte of the file is cleared
Poke(i) ==
  /\ pc = "disk"
  /\ ~corrupted
  /\ i \in 1..Len(disk)
  /\ disk[i] # 0
  /\ disk' = [disk EXCEPT ![i] = 0]
  /\ corrupted' = TRUE
  /\ UNCHANGED <<cf, pc, wres, lres, strtable, startIdx, nres>>

\* LoadCacheFile(path) on the file as it is
DoLoad ==
  /\ pc = "disk"
  /\ LET r == LoadCacheFile(disk)
     IN  /\ r.status # "toobig"
         /\ lres' = r
  /\ pc' = "loaded"
  /\ UNCHANGED <<cf, disk, corrupted, wres, strtable, startIdx, nres>>

MaxDisk == HeaderSize + (MaxEntries + 1) * EntrySize + 64 + (MaxExts + 1) * 32

Next ==
  \/ \E e \in EntryPool : AddEntry(e)
  \/ \E x \in ExtPool : AddExtension(x)
  \/ \E n \in 0..MaxEntries, size \in StrSizes \cup {TableSize(cf.Entries)} :
       SetHeader(n, size)
  \/ DoWrite
  \/ \E n \in 0..MaxDisk : Truncate(n)
  \/ \E i \in 1..MaxDisk : Poke(i)
  \/ DoLoad

Spec == Init /\ [][Next]_vars

(***************************************************************************)
(* extractShlibName on its own: every table over TableBytes of at most     *)
(* MaxTable bytes, every start index up to one past what the slice allows, *)
(* and the index a wrapped subtraction gives.                              *)
(***************************************************************************)
Tables == UNION { [1..n -> TableBytes] : n \in 0..MaxTable }

InitName ==
  /\ cf = [Header |-> EmptyHeader, Entries |-> <<>>, Extensions |-> <<>>]
  /\ disk = <<>>
  /\ pc = "name"
  /\ corrupted = FALSE
  /\ wres = "none"
  /\ lres = Outcome("none", NoFile)
  /\ strtable \in Tables
  /\ startIdx \in {U32(k) : k \in 0..(MaxTable + 1)} \cup {Sub32(U32(0), U32(1))}
  /\ nres = NoName

ExtractShlibName ==
  /\ pc = "name"
  /\ LET r == extractShlibName(strtable, startIdx)
     IN  nres' = [status |-> IF r.panic THEN "panic" ELSE "ok", name |-> r.name]
  /\ pc' = "named"
  /\ UNCHANGED <<cf, disk, corrupted, wres, lres, strtable, startIdx>>

NextName == ExtractShlibName

SpecName == InitName /\ [][NextName]_vars

(***************************************************************************)
(* Properties.  They are stated on the bytes of the file and on the model  *)
(* handed to Write, not through the operators above.                       *)
(***************************************************************************)
\* the four bytes of the extension magic 0xEAA42174 as they lie in a file
MagicBytes == <<116, 33, 164, 234>>

\* the file decoded by the last LoadCacheFile is the one Write produced
Pristine == ~corrupted

DistinctNames(libs) ==
  \A i, j \in 1..Len(libs) : i # j => libs[i].Name # libs[j].Name

Basename(name) == SubSeq(name, LastSlash(name, Len(name)) + 1, Len(name))

\* the k-th raw entry record of a file, k from 1
RawAt(d, k) == DecodeRawEntry(SubSeq(d, HeaderSize + EntrySize * (k - 1) + 1,
                                     HeaderSize + EntrySize * k))

\* the header's counts fit the explored range and the file holds the header
HasHeader(d) == Len(d) >= HeaderSize

\* fewer bytes than header + NumLibs records + StrTableSize bytes
TruncatedCore(d) ==
  \/ ~HasHeader(d)
  \/ LET n == GetU32(d, 20)
         size == GetU32(d, 24)
     IN  \/ n.hi > 0
         \/ size.hi > 0
         \/ Len(d) < HeaderSize + EntrySize * n.lo + size.lo

\* C1: round trip.  For a model with pairwise distinct names and
\* len(Entries) = Header.NumLibs, Write completes, and LoadCacheFile of the
\* bytes it wrote succeeds with the same NumLibs, StrTableSize and, entry by
\* entry, the same Name, Flags, OSVersion_Needed and HWCap_Needed.
C1_RoundTrip ==
  (DistinctNames(cf.Entries) /\ U32(Len(cf.Entries)) = cf.Header.NumLibs) =>
    /\ pc # "crashed"
    /\ (pc = "loaded" /\ Pristine) =>
         /\ lres.status = "ok"
         /\ lres.file.Header.NumLibs = cf.Header.NumLibs
         /\ lres.file.Header.StrTableSize = cf.Header.StrTableSize
         /\ Len(lres.file.Entries) = Len(cf.Entries)
         /\ \A k \in 1..Len(cf.Entries) :
              /\ lres.file.Entries[k].Name = cf.Entries[k].Name
              /\ lres.file.Entries[k].Flags = cf.Entries[k].Flags
              /\ lres.file.Entries[k].OSVersion_Needed
                   = cf.Entries[k].OSVersion_Needed
              /\ lres.file.Entries[k].HWCap_Needed = cf.Entries[k].HWCap_Needed

\* C2: every successful LoadCacheFile returns exactly Header.NumLibs
\* entries, NumLibs being the value stored in the file's header, and the
\* k-th entry carries the fields of the k-th raw record of the file.
C2_EntryCount ==
  (pc = "loaded" /\ lres.status = "ok") =>
    /\ HasHeader(disk)
    /\ lres.file.Header.NumLibs = GetU32(disk, 20)
    /\ U32(Len(lres.file.Entries)) = GetU32(disk, 20)
    /\ \A k \in 1..Len(lres.file.Entries) :
         /\ HeaderSize + EntrySize * k <= Len(disk)
         /\ lres.file.Entries[k].Flags = RawAt(disk, k).Flags
         /\ lres.file.Entries[k].OSVersion_Needed
              = RawAt(disk, k).OSVersion_Needed
         /\ lres.file.Entries[k].HWCap_Needed = RawAt(disk, k).HWCap_Needed

C2_Witness ==
  /\ pc = "loaded"
  /\ lres.status = "ok"
  /\ corrupted
  /\ Len(lres.file.Entries) = 2
  /\ lres.file.Entries[1].Flags # lres.file.Entries[2].Flags

\* the position LoadCacheFile seeks to for the extension sub-header
ExtPos(d) == LET p == LoadCore(d).pos IN (p - (p % 16)) + 8

ExtHeaderShort(d) == Len(d) - ExtPos(d) < 8

ExtMagicWrong(d) ==
  /\ ~ExtHeaderShort(d)
  /\ SubSeq(d, ExtPos(d) + 1, ExtPos(d) + 4) # MagicBytes

\* C3: when the core tables decode and fewer than 8 bytes are available at
\* the aligned position, or the magic there is not 0xEAA42174, the load
\* succeeds with the header and entries decoded so far and no extension
\* section.
C3_NoExtensionIsSuccess ==
  (/\ pc = "loaded"
   /\ LoadCore(disk).status = "ok"
   /\ (ExtHeaderShort(disk) \/ ExtMagicWrong(disk))) =>
    /\ lres.status = "ok"
    /\ lres.file.Header = LoadCore(disk).file.Header
    /\ lres.file.Entries = LoadCore(disk).file.Entries
    /\ lres.file.Extensions = <<>>

C3_Witness ==
  /\ pc = "loaded"
  /\ LoadCore(disk).status = "ok"
  /\ ExtMagicWrong(disk)
  /\ Len(cf.Extensions) > 0
  /\ lres.status = "ok"
  /\ lres.file.Entries # <<>>
  /\ lres.file.Extensions = <<>>

\* C4: for a start index inside the table, the name is the table's bytes
\* from the index up to, not including, the first NUL at or after it, and
\* all the remaining bytes when there is none; no failure is reported.
C4_NameResolution ==
  (pc = "named" /\ IsSmall(startIdx) /\ ToInt(startIdx) < Len(strtable)) =>
    LET i == ToInt(startIdx)
        nuls == {k \in (i + 1)..Len(strtable) : strtable[k] = 0}
        stop == IF nuls = {} THEN Len(strtable)
                ELSE (CHOOSE k \in nuls : \A j \in nuls : k <= j) - 1
    IN  /\ nres.status = "ok"
        /\ nres.name = [k \in 1..(stop - i) |-> strtable[i + k]]

C4_Witness ==
  /\ pc = "named"
  /\ startIdx = U32(1)
  /\ Len(strtable) = 4
  /\ strtable[3] = 0
  /\ strtable[4] # 0
  /\ nres.status = "ok"
  /\ nres.name = <<strtable[2]>>
  /\ nres.name # <<0>>

\* C5: a file with fewer bytes than header + NumLibs records + StrTableSize
\* bytes is never loaded: LoadCacheFile returns an error.
C5_TruncationIsFatal ==
  (pc = "loaded" /\ TruncatedCore(disk)) => lres.status = "err"

\* C6: when the header, the records and the string table are read and some
\* record's Value minus the table's file offset (unsigned 32-bit) is not
\* below the table's length, LoadCacheFile returns an error.
C6_OffsetOutOfRangeIsError ==
  (/\ pc = "loaded"
   /\ HasHeader(disk)
   /\ GetU32(disk, 20).hi = 0
   /\ GetU32(disk, 24).hi = 0
   /\ Len(disk) > HeaderSize + EntrySize * GetU32(disk, 20).lo
   /\ \E k \in 1..GetU32(disk, 20).lo :
        LET base == HeaderSize + EntrySize * GetU32(disk, 20).lo
            rel == Sub32(RawAt(disk, k).Value, U32(base))
        IN  ~IsSmall(rel) \/ ToInt(rel) >= GetU32(disk, 24).lo) =>
    lres.status = "err"

\* C7: every extension section a load returns holds exactly the Size bytes
\* of the file at [Offset, Offset + Size).
C7_SectionDataFromFile ==
  (pc = "loaded" /\ lres.status = "ok") =>
    \A k \in 1..Len(lres.file.Extensions) :
      LET h == lres.file.Extensions[k].Header
      IN  /\ IsSmall(h.Offset) /\ IsSmall(h.Size)
          /\ ToInt(h.Offset) + ToInt(h.Size) <= Len(disk)
          /\ lres.file.Extensions[k].Data
               = SubSeq(disk, ToInt(h.Offset) + 1, ToInt(h.Offset) + ToInt(h.Size))

\* the position at which Write has finished the string table
EndOfTable(file) ==
  HeaderSize + EntrySize * Len(file.Entries) + TableSize(file.Entries)

\* C8: Write completes its padding step for every model, and with at least
\* one extension section the sub-header starts at (pos AND NOT 15) + 8, pos
\* the end of the string table, with only zero bytes in between.
C8_AlignmentOnEncode ==
  /\ pc # "crashed"
  /\ (pc = "disk" /\ Pristine /\ Len(cf.Extensions) > 0) =>
       LET pos == EndOfTable(cf)
           a == (pos - (pos % 16)) + 8
       IN  /\ Len(disk) >= a + 4
           /\ SubSeq(disk, a + 1, a + 4) = MagicBytes
           /\ \A k \in (pos + 1)..a : disk[k] = 0

\* C9: in the file Write produces, the k-th record's Value is header size +
\* entries * record size + the table's length before the k-th name, and the
\* bytes from Key to the name's NUL are the name's basename (Key = Value for
\* a name without a directory).
C9_KeyAndValueOffsets ==
  (pc = "disk" /\ Pristine) =>
    \A k \in 1..Len(cf.Entries) :
      LET name == cf.Entries[k].Name
          val == HeaderSize + EntrySize * Len(cf.Entries)
                   + TableSize(SubSeq(cf.Entries, 1, k - 1))
          key == ToInt(RawAt(disk, k).Key)
      IN  /\ RawAt(disk, k).Value = U32(val)
          /\ key >= val
          /\ key <= val + Len(name)
          /\ SubSeq(disk, key + 1, val + Len(name)) = Basename(name)
          /\ disk[val + Len(name) + 1] = 0
          /\ (LastSlash(name, Len(name)) = 0 => key = val)

RECURSIVE DataBefore(_, _)
\* the payload bytes Write puts before the k-th section's payload
DataBefore(exts, k) ==
  IF k <= 1 THEN 0 ELSE Len(exts[k - 1].Data) + DataBefore(exts, k - 1)

\* C10: for a model with at least one extension section, each section
\* header in the written file holds the file position of that section's
\* payload, and loading the file returns the model's sections: same number,
\* order, Tag, Flags, Size and Data.
C10_ExtensionRoundTrip ==
  (Len(cf.Extensions) > 0 /\ Pristine) =>
    LET pos == EndOfTable(cf)
        a == (pos - (pos % 16)) + 8
        m == Len(cf.Extensions)
        payload(k) == a + ExtHeaderSize + SectionHeaderSize * m
                        + DataBefore(cf.Extensions, k)
        descr(k) == DecodeSectionHeader(
                      SubSeq(disk, a + ExtHeaderSize + SectionHeaderSize * (k - 1) + 1,
                             a + ExtHeaderSize + SectionHeaderSize * k))
    IN  /\ pc = "disk" => \A k \in 1..m : descr(k).Offset = U32(payload(k))
        /\ pc = "loaded" =>
             /\ lres.status = "ok"
             /\ Len(lres.file.Extensions) = m
             /\ \A k \in 1..m :
                  /\ lres.file.Extensions[k].Header.Tag = cf.Extensions[k].Header.Tag
                  /\ lres.file.Extensions[k].Header.Flags
                       = cf.Extensions[k].Header.Flags
                  /\ lres.file.Extensions[k].Header.Size
                       = cf.Extensions[k].Header.Size
                  /\ lres.file.Extensions[k].Data = cf.Extensions[k].Data

====
